---- MODULE Spec2Model ----
(***************************************************************************)
(* A model of the AI Doc Agent ingestion helpers (list_input_files,        *)
(* ingest_file_from_path), the CLI runner (run_ingestion, main), the       *)
(* Streamlit upload loop and the run-scoped logger configuration.          *)
(*                                                                         *)
(* Strings are sequences of one-character strings so that suffix           *)
(* extraction, lstrip("."), lower() and the ordering used by sorted() are  *)
(* computed the way the code computes them.                                *)
(***************************************************************************)
EXTENDS Integers, Sequences, FiniteSets, TLC

VARIABLES
    inputKind,  \* what the input directory path is: "absent", "file", "dir", "other"
    fs,         \* entries of the input directory: name -> [kind, data]
    mods,       \* history: per name, how many times another process changed it
    lst,        \* activation record of list_input_files
    ing,        \* activation record of ingest_file_from_path
    calls,      \* history: the finished ingest_file_from_path calls, in order
    writer,     \* another process running save_uploaded_file (write_bytes in flight)
    cli,        \* activation record of main.py main / run_ingestion
    ui,         \* activation record of the upload loop of ui/app.py main
    logger      \* the root logger, the clock and the configure_run_logger history

vars == <<inputKind, fs, mods, lst, ing, calls, writer, cli, ui, logger>>

fsVars == <<inputKind, fs, mods, writer>>

----------------------------------------------------------------------------
(* Bounds                                                                  *)

MaxEntries == 4

\* changes other processes make to the input directory during a run
MaxEnvSteps == 2

\* ingest_file_from_path calls the test driver makes
MaxCalls == 2

\* files in one batch of uploads
MaxUploads == 2

\* the clock: ticks the model runs for, ticks in a second, seconds in a day
MaxClock == 4
TicksPerSecond == 2
SecondsPerDay == 2

\* configure_run_logger calls in one process, and handlers other code
\* attaches to the root logger
MaxConfigures == 3
MaxForeign == 1

----------------------------------------------------------------------------
(* Characters and strings                                                  *)

LowerChars ==
    << "a", "b", "c", "d", "e", "f", "g", "h", "i", "j", "k", "l", "m",
       "n", "o", "p", "q", "r", "s", "t", "u", "v", "w", "x", "y", "z" >>

UpperChars ==
    << "A", "B", "C", "D", "E", "F", "G", "H", "I", "J", "K", "L", "M",
       "N", "O", "P", "Q", "R", "S", "T", "U", "V", "W", "X", "Y", "Z" >>

DigitChars == << "0", "1", "2", "3", "4", "5", "6", "7", "8", "9" >>

\* the elements of a list
SeqRange(s) == {s[i] : i \in 1..Len(s)}

IndexOf(s, c) == CHOOSE i \in 1..Len(s) : s[i] = c

IsIn(s, c) == \E i \in 1..Len(s) : s[i] = c

\* Code point of a character (ASCII).
Ord(c) ==
    IF c = "." THEN 46
    ELSE IF c = "-" THEN 45
    ELSE IF c = "/" THEN 47
    ELSE IF c = "_" THEN 95
    ELSE IF IsIn(DigitChars, c) THEN 47 + IndexOf(DigitChars, c)
    ELSE IF IsIn(UpperChars, c) THEN 64 + IndexOf(UpperChars, c)
    ELSE 96 + IndexOf(LowerChars, c)

\* str.lower(), one character.
LowerChar(c) == IF IsIn(UpperChars, c) THEN LowerChars[IndexOf(UpperChars, c)] ELSE c

\* str.lower()
Lower(s) == [i \in 1..Len(s) |-> LowerChar(s[i])]

\* str.lstrip("."): every leading dot goes.
RECURSIVE LStripDots(_)
LStripDots(s) ==
    IF s # <<>> /\ s[1] = "." THEN LStripDots(Tail(s)) ELSE s

\* str.rfind("."), 1-based; 0 when there is no dot.
RFindDot(s) ==
    IF \E i \in 1..Len(s) : s[i] = "."
    THEN CHOOSE i \in 1..Len(s) : s[i] = "." /\ \A j \in (i+1)..Len(s) : s[j] # "."
    ELSE 0

\* pathlib PurePath.suffix: name[i:] when the last dot is neither the first
\* nor the last character of the name, "" otherwise.
Suffix(name) ==
    LET i == RFindDot(name)
    IN  IF 1 < i /\ i < Len(name) THEN SubSeq(name, i, Len(name)) ELSE <<>>

\* path.suffix.lstrip(".").lower() and ext.lstrip(".").lower()
NormalizeExt(s) == Lower(LStripDots(s))

FileExt(name) == NormalizeExt(Suffix(name))

\* str < str
RECURSIVE StrLT(_, _)
StrLT(a, b) ==
    IF a = <<>> THEN b # <<>>
    ELSE IF b = <<>> THEN FALSE
    ELSE IF a[1] = b[1] THEN StrLT(Tail(a), Tail(b))
    ELSE Ord(a[1]) < Ord(b[1])

\* Path < Path: the lists of path components are compared.
RECURSIVE PathLT(_, _)
PathLT(p, q) ==
    IF p = <<>> THEN q # <<>>
    ELSE IF q = <<>> THEN FALSE
    ELSE IF p[1] = q[1] THEN PathLT(Tail(p), Tail(q))
    ELSE StrLT(p[1], q[1])

\* sorted(): insertion into an ascending list, after the equal elements.
RECURSIVE InsertSorted(_, _)
InsertSorted(x, s) ==
    IF s = <<>> THEN <<x>>
    ELSE IF PathLT(x, s[1]) THEN <<x>> \o s
    ELSE <<s[1]>> \o InsertSorted(x, Tail(s))

RECURSIVE SortedPathsOf(_)
SortedPathsOf(s) ==
    IF s = <<>> THEN <<>>
    ELSE InsertSorted(s[Len(s)], SortedPathsOf(SubSeq(s, 1, Len(s) - 1)))

\* str(path): the components joined by "/"
RECURSIVE PathStr(_)
PathStr(p) ==
    IF Len(p) = 1 THEN p[1] ELSE p[1] \o <<"/">> \o PathStr(Tail(p))

\* a sorted() that leaves the list in directory order
UnsortedPaths(s) == s

\* sorted(matching_files)
SortedPaths(s) == SortedPathsOf(s)

----------------------------------------------------------------------------
(* Names, paths and the filesystem                                         *)

NameATxt == << "a", ".", "t", "x", "t" >>
NameBPdf == << "b", ".", "p", "d", "f" >>
NameIgnoreExe == << "i", "g", "n", "o", "r", "e", ".", "e", "x", "e" >>
NameUpperPdf == << "B", ".", "P", "D", "F" >>
NameDotTxt == << ".", "t", "x", "t" >>
NameNoExt == << "c", "." >>

Names == {NameATxt, NameBPdf, NameIgnoreExe, NameUpperPdf, NameDotTxt, NameNoExt}

\* project_root / "input"
InputDir == << << "i", "n", "p", "u", "t" >> >>

PathOf(n) == InputDir \o <<n>>

NameOf(p) == p[Len(p)]

Absent == [kind |-> "absent", data |-> <<>>]
Directory == [kind |-> "dir", data |-> <<>>]
Special == [kind |-> "other", data |-> <<>>]
RegularFile(d) == [kind |-> "file", data |-> d]

EmptyDir == [n \in Names |-> Absent]

\* Path.exists(), Path.is_file(), Path.is_dir()
Exists(e) == e.kind # "absent"
IsFile(e) == e.kind = "file"
IsDir(k) == k = "dir"

ExtPdf == << "p", "d", "f" >>
ExtTxt == << "t", "x", "t" >>
ExtDocx == << "d", "o", "c", "x" >>
ExtCsv == << "c", "s", "v" >>
ExtXlsx == << "x", "l", "s", "x" >>

DEFAULT_ALLOWED_EXTENSIONS == << ExtPdf, ExtTxt, ExtDocx, ExtCsv, ExtXlsx >>

NoneArg == "None"

\* the activation records and processes at rest
NoRecord == [none |-> TRUE]

IngIdle ==
    [pc |-> "idle", path |-> <<>>, read |-> FALSE, content |-> <<>>,
     err |-> "none", at |-> "none", rec |-> NoRecord, m0 |-> 0, m1 |-> 0]

WriterIdle == [pc |-> "idle", name |-> <<>>, data |-> <<>>]

NoError == [type |-> "none", origin |-> "none"]

CliIdle ==
    [pc |-> "idle", files |-> <<>>, idx |-> 0, results |-> <<>>,
     returned |-> FALSE, raised |-> NoError, outcome |-> "none",
     errorLog |-> <<>>, summary |-> <<>>, listCalls |-> 0, attempted |-> <<>>]

UiIdle ==
    [pc |-> "idle", uploads |-> <<>>, idx |-> 0, details |-> <<>>,
     attempts |-> <<>>]

LoggerIdle ==
    [clock |-> 0, handlers |-> <<>>, objs |-> <<>>, dirs |-> {},
     history |-> <<>>, lastOp |-> "none"]

----------------------------------------------------------------------------
(* list_input_files                                                        *)

\* allowed_extensions if allowed_extensions is not None else the defaults
ResolveAllowed(allowed) ==
    IF allowed = NoneArg THEN DEFAULT_ALLOWED_EXTENSIONS ELSE allowed

\* {ext.lstrip(".").lower() for ext in allowed}
NormalizedExts(allowed) ==
    LET a == ResolveAllowed(allowed)
    IN  {NormalizeExt(a[i]) : i \in 1..Len(a)}

\* the loop body's test: a regular file whose extension is allowed
Eligible(e, n, normalized) ==
    IsFile(e) /\ FileExt(n) \in normalized

ListIdle ==
    [pc |-> "idle", allowed |-> NoneArg, normalized |-> {}, remaining |-> {},
     enumerated |-> {}, matching |-> <<>>, ret |-> <<>>, err |-> "none"]

ListCall(allowed) == [ListIdle EXCEPT !.pc = "exists", !.allowed = allowed]

\* list_input_files without its existence check
ListExistsSkipped ==
    /\ lst.pc = "exists"
    /\ lst' = [lst EXCEPT !.pc = "is_dir"]
    /\ UNCHANGED <<fsVars, ing, calls, cli, ui, logger>>

\* if not input_dir.exists(): raise FileNotFoundError
ListExists ==
    /\ lst.pc = "exists"
    /\ lst' = IF inputKind = "absent"
              THEN [lst EXCEPT !.pc = "raise", !.err = "FileNotFoundError"]
              ELSE [lst EXCEPT !.pc = "is_dir"]
    /\ UNCHANGED <<fsVars, ing, calls, cli, ui, logger>>

\* if not input_dir.is_dir(): raise NotADirectoryError; then the allow-list is
\* normalized and iterdir() is opened
ListIsDir ==
    /\ lst.pc = "is_dir"
    /\ lst' = IF ~IsDir(inputKind)
              THEN [lst EXCEPT !.pc = "raise", !.err = "NotADirectoryError"]
              ELSE [lst EXCEPT !.pc = "iter",
                               !.normalized = NormalizedExts(lst.allowed),
                               !.remaining = {n \in Names : Exists(fs[n])}]
    /\ UNCHANGED <<fsVars, ing, calls, cli, ui, logger>>

\* one round of "for file_path in input_dir.iterdir()": the directory yields
\* its entries in an order of its own
ListIter ==
    /\ lst.pc = "iter"
    /\ \E n \in lst.remaining :
          lst' = [lst EXCEPT
                    !.remaining = @ \ {n},
                    !.enumerated = @ \cup {n},
                    !.matching = IF Eligible(fs[n], n, lst.normalized)
                                 THEN Append(@, PathOf(n)) ELSE @]
    /\ UNCHANGED <<fsVars, ing, calls, cli, ui, logger>>

\* ordered_files = sorted(matching_files); return ordered_files
ListReturn ==
    /\ lst.pc = "iter"
    /\ lst.remaining = {}
    /\ lst' = [lst EXCEPT !.pc = "ret", !.ret = SortedPaths(lst.matching)]
    /\ UNCHANGED <<fsVars, ing, calls, cli, ui, logger>>

AllowChoices ==
    { NoneArg,
      << << ".", "P", "D", "F" >> >>,
      << << "T", "x", "t" >>, << ".", ".", "e", "x", "e" >> >>,
      << <<>> >>,
      <<>> }

EntryKinds == {"file", "dir", "other"}

EntryOfKind(k) ==
    IF k = "file" THEN RegularFile(<<>>)
    ELSE IF k = "dir" THEN Directory ELSE Special

\* the directories with at most MaxEntries entries
Directories ==
    { f \in [Names -> {Absent} \cup {EntryOfKind(k) : k \in EntryKinds}] :
        Cardinality({n \in Names : Exists(f[n])}) <= MaxEntries }

InitList ==
    /\ inputKind \in {"absent", "file", "dir", "other"}
    /\ fs \in (IF inputKind = "dir" THEN Directories ELSE {EmptyDir})
    /\ mods = [n \in Names |-> 0]
    /\ \E a \in AllowChoices : lst = ListCall(a)
    /\ ing = IngIdle
    /\ calls = <<>>
    /\ writer = WriterIdle
    /\ cli = CliIdle
    /\ ui = UiIdle
    /\ logger = LoggerIdle

NextList == ListExists \/ ListIsDir \/ ListIter \/ ListReturn

SpecList == InitList /\ [][NextList]_vars

----------------------------------------------------------------------------
(* Other processes working on the input directory                         *)

RECURSIVE SumOver(_, _)
SumOver(f, S) ==
    IF S = {} THEN 0
    ELSE LET x == CHOOSE y \in S : TRUE IN f[x] + SumOver(f, S \ {x})

TotalMods == SumOver(mods, Names)

DataHello == << 104, 101, 108, 108, 111 >>
DataPdf == << 37, 80, 68, 70, 45, 49, 46, 52, 10, 37 >>
DataExe == << 77, 90, 0 >>
DataNew == << 110, 101, 119 >>

\* the end-to-end directory: a.txt (5 bytes), b.pdf (10 bytes), ignore.exe (3 bytes)
ScenarioDir ==
    [n \in Names |->
        IF n = NameATxt THEN RegularFile(DataHello)
        ELSE IF n = NameBPdf THEN RegularFile(DataPdf)
        ELSE IF n = NameIgnoreExe THEN RegularFile(DataExe)
        ELSE Absent]

\* the same with a subdirectory and a special file
MixedDir ==
    [ScenarioDir EXCEPT ![NameUpperPdf] = Directory,
                        ![NameNoExt] = Special]

\* the names other processes touch, and what an upload writes
EnvNames == {NameATxt, NameBPdf}
UploadDatas == {DataNew}

\* open(destination, "wb"): the file is created or cut to length 0
Truncated(f, n) == [f EXCEPT ![n] = RegularFile(<<>>)]

\* f.write(view): the bytes land in the file
Written(f, n, d) == [f EXCEPT ![n] = RegularFile(d)]

\* another process deletes a file of the input directory
EnvDelete ==
    /\ inputKind = "dir"
    /\ TotalMods < MaxEnvSteps
    /\ \E n \in EnvNames :
          /\ fs[n].kind = "file"
          /\ fs' = [fs EXCEPT ![n] = Absent]
          /\ mods' = [mods EXCEPT ![n] = @ + 1]
    /\ UNCHANGED <<inputKind, writer, lst, ing, calls, cli, ui, logger>>

\* another process makes a directory where no entry is
EnvMkdir ==
    /\ inputKind = "dir"
    /\ TotalMods < MaxEnvSteps
    /\ \E n \in EnvNames :
          /\ fs[n].kind = "absent"
          /\ fs' = [fs EXCEPT ![n] = Directory]
          /\ mods' = [mods EXCEPT ![n] = @ + 1]
    /\ UNCHANGED <<inputKind, writer, lst, ing, calls, cli, ui, logger>>

\* another session's save_uploaded_file: destination.write_bytes opens the file
WriterOpen ==
    /\ inputKind = "dir"
    /\ writer.pc = "idle"
    /\ TotalMods + 2 <= MaxEnvSteps
    /\ \E n \in EnvNames, d \in UploadDatas :
          /\ fs[n].kind \in {"absent", "file"}
          /\ fs' = Truncated(fs, n)
          /\ mods' = [mods EXCEPT ![n] = @ + 1]
          /\ writer' = [pc |-> "opened", name |-> n, data |-> d]
    /\ UNCHANGED <<inputKind, lst, ing, calls, cli, ui, logger>>

\* ... and writes the upload's bytes (into the open file, wherever it is now)
WriterWrite ==
    /\ writer.pc = "opened"
    /\ fs' = IF fs[writer.name].kind = "file"
             THEN Written(fs, writer.name, writer.data) ELSE fs
    /\ mods' = [mods EXCEPT ![writer.name] = @ + 1]
    /\ writer' = WriterIdle
    /\ UNCHANGED <<inputKind, lst, ing, calls, cli, ui, logger>>

----------------------------------------------------------------------------
(* ingest_file_from_path                                                   *)

HexChars ==
    << "0", "1", "2", "3", "4", "5", "6", "7", "8", "9",
       "a", "b", "c", "d", "e", "f" >>

\* uuid.uuid4().hex: 32 lowercase hexadecimal characters, drawn at random.
\* UuidB shares its first 8 characters with UuidA.
UuidA ==
    << "3", "f", "0", "a", "9", "c", "1", "e",  "7", "b", "2", "d",
       "4", "a", "6", "1",  "9", "0", "c", "5",
       "e", "8", "d", "2", "f", "7", "3", "b", "6", "4", "a", "0" >>
UuidB ==
    << "3", "f", "0", "a", "9", "c", "1", "e",  "0", "0", "5", "1",
       "4", "c", "c", "2",  "b", "7", "1", "9",
       "1", "2", "e", "e", "0", "9", "a", "d", "5", "5", "f", "3" >>
UuidC ==
    << "c", "4", "d", "7", "0", "0", "b", "2",  "8", "e", "1", "f",
       "4", "0", "3", "9",  "a", "6", "6", "d",
       "7", "7", "a", "1", "c", "3", "e", "0", "9", "2", "b", "8" >>

UuidPool == {UuidA, UuidB, UuidC}

\* an identifier cut one character short
FileIdShort(u) == << "F", "-" >> \o SubSeq(u, 1, 7)

\* f"F-{uuid.uuid4().hex[:8]}"
FileId(u) == << "F", "-" >> \o SubSeq(u, 1, 8)

\* st_size of a directory depends on the filesystem
DirSizes == {0, 4096}

\* ingest_file_from_path(INPUT_DIR / n) is entered
IngCall(n) == [IngIdle EXCEPT !.pc = "exists", !.path = n, !.m0 = mods[n]]

IngRaise(r, e, where) ==
    [r EXCEPT !.pc = "raise", !.err = e, !.at = where, !.m1 = mods[r.path]]

\* ingest_file_from_path without its existence check
IngestExistsSkipped ==
    /\ ing.pc = "exists"
    /\ ing' = [ing EXCEPT !.pc = "is_file"]
    /\ UNCHANGED <<fsVars, lst, calls, cli, ui, logger>>

\* if not path.exists(): raise FileNotFoundError
IngestExists ==
    /\ ing.pc = "exists"
    /\ ing' = IF ~Exists(fs[ing.path])
              THEN IngRaise(ing, "FileNotFoundError", "exists")
              ELSE [ing EXCEPT !.pc = "is_file"]
    /\ UNCHANGED <<fsVars, lst, calls, cli, ui, logger>>

\* if not path.is_file(): raise IsADirectoryError
IngestIsFile ==
    /\ ing.pc = "is_file"
    /\ ing' = IF ~IsFile(fs[ing.path])
              THEN IngRaise(ing, "IsADirectoryError", "is_file")
              ELSE [ing EXCEPT !.pc = "read"]
    /\ UNCHANGED <<fsVars, lst, calls, cli, ui, logger>>

\* content_bytes = path.read_bytes(); open() fails when the file has gone
IngestRead ==
    /\ ing.pc = "read"
    /\ ing' = CASE fs[ing.path].kind = "absent" ->
                     IngRaise(ing, "FileNotFoundError", "read")
                [] fs[ing.path].kind = "file" ->
                     [ing EXCEPT !.pc = "stat", !.read = TRUE,
                                 !.content = fs[ing.path].data]
                [] OTHER ->
                     IngRaise(ing, "IsADirectoryError", "read")
    /\ UNCHANGED <<fsVars, lst, calls, cli, ui, logger>>

\* file_stat.st_size for what the path is now
StatSizes(e) == IF e.kind = "file" THEN {Len(e.data)} ELSE DirSizes

\* the size the record gets
RecordSize(statSize, content) == statSize

\* file_stat = path.stat(), then the dictionary is composed and returned
IngestStat ==
    /\ ing.pc = "stat"
    /\ IF fs[ing.path].kind = "absent"
       THEN ing' = IngRaise(ing, "FileNotFoundError", "stat")
       ELSE \E u \in UuidPool, sz \in StatSizes(fs[ing.path]) :
              ing' = [ing EXCEPT
                        !.pc = "ret",
                        !.m1 = mods[ing.path],
                        !.rec = [file_id |-> FileId(u),
                                 name |-> ing.path,
                                 extension |-> FileExt(ing.path),
                                 source |-> "local_folder",
                                 path |-> PathStr(PathOf(ing.path)),
                                 size_bytes |-> RecordSize(sz, ing.content),
                                 content_bytes |-> ing.content]]
    /\ UNCHANGED <<fsVars, lst, calls, cli, ui, logger>>

\* what the history keeps of a finished call
CallEntry(r) ==
    [path |-> r.path, ok |-> r.pc = "ret", err |-> r.err, at |-> r.at,
     rec |-> r.rec, m0 |-> r.m0, m1 |-> r.m1]

\* a caller calls ingest_file_from_path on a path of its choice
DriverCall ==
    /\ ing.pc = "idle"
    /\ Len(calls) < MaxCalls
    /\ \E n \in Names : ing' = IngCall(n)
    /\ UNCHANGED <<fsVars, lst, calls, cli, ui, logger>>

\* ... and takes the record or the error
DriverTake ==
    /\ ing.pc \in {"ret", "raise"}
    /\ calls' = Append(calls, CallEntry(ing))
    /\ ing' = IngIdle
    /\ UNCHANGED <<fsVars, lst, cli, ui, logger>>

InitIngest ==
    /\ inputKind = "dir"
    /\ fs = MixedDir
    /\ mods = [n \in Names |-> 0]
    /\ lst = ListIdle
    /\ ing = IngIdle
    /\ calls = <<>>
    /\ writer = WriterIdle
    /\ cli = CliIdle
    /\ ui = UiIdle
    /\ logger = LoggerIdle

NextIngest ==
    \/ DriverCall \/ DriverTake
    \/ IngestExists \/ IngestIsFile \/ IngestRead \/ IngestStat
    \/ EnvDelete \/ EnvMkdir \/ WriterOpen \/ WriterWrite

SpecIngest == InitIngest /\ [][NextIngest]_vars

----------------------------------------------------------------------------
(* main.py: run_ingestion and main                                         *)

\* the built-in exception classes a raised error is an instance of
Mro(t) ==
    IF t \in {"FileNotFoundError", "NotADirectoryError", "IsADirectoryError",
              "FileExistsError"}
    THEN {t, "OSError", "Exception", "BaseException"}
    ELSE {t, "Exception", "BaseException"}

Catches(classes, t) == \E c \in classes : c \in Mro(t)

\* an except clause that takes every OSError
CliCaughtAnyOSError == {"OSError"}

\* except (FileNotFoundError, NotADirectoryError) as exc
CliCaught == {"FileNotFoundError", "NotADirectoryError"}

\* a runner that collects its records newest first
PrependResult(results, rec) == <<rec>> \o results

\* ingested_results.append(ingest_file_from_path(file_path))
AppendResult(results, rec) == Append(results, rec)

\* the summary line main logs for a record
SummaryLine(rec) ==
    [name |-> rec.name, extension |-> rec.extension, file_id |-> rec.file_id,
     size_bytes |-> rec.size_bytes]

\* an error leaves run_ingestion and reaches the try statement of main
CliHandle(c, t, origin) ==
    IF Catches(CliCaught, t)
    THEN [c EXCEPT !.pc = "done", !.raised = [type |-> t, origin |-> origin],
                   !.errorLog = Append(@, t), !.outcome = "returned"]
    ELSE [c EXCEPT !.pc = "done", !.raised = [type |-> t, origin |-> origin],
                   !.outcome = "propagated"]

\* main enters run_ingestion, which calls list_input_files(input_dir)
CliStart ==
    /\ cli.pc = "start"
    /\ lst.pc = "idle"
    /\ lst' = ListCall(NoneArg)
    /\ cli' = [cli EXCEPT !.pc = "listing", !.listCalls = @ + 1]
    /\ UNCHANGED <<fsVars, ing, calls, ui, logger>>

\* files = list_input_files(input_dir); if not files: return ingested_results
CliAfterList ==
    /\ cli.pc = "listing"
    /\ lst.pc \in {"ret", "raise"}
    /\ cli' = IF lst.pc = "raise" THEN CliHandle(cli, lst.err, "list")
              ELSE IF lst.ret = <<>>
              THEN [cli EXCEPT !.pc = "summary", !.returned = TRUE]
              ELSE [cli EXCEPT !.pc = "loop", !.files = lst.ret, !.idx = 1]
    /\ lst' = ListIdle
    /\ UNCHANGED <<fsVars, ing, calls, ui, logger>>

\* for file_path in files: ... ingest_file_from_path(file_path) is called
CliIngestNext ==
    /\ cli.pc = "loop"
    /\ ing.pc = "idle"
    /\ ing' = IngCall(NameOf(cli.files[cli.idx]))
    /\ cli' = [cli EXCEPT !.pc = "ingesting",
                          !.attempted = Append(@, NameOf(cli.files[cli.idx]))]
    /\ UNCHANGED <<fsVars, lst, calls, ui, logger>>

\* ... its record is appended, or its error leaves run_ingestion; after the
\* last file run_ingestion returns ingested_results
CliIngestDone ==
    /\ cli.pc = "ingesting"
    /\ ing.pc \in {"ret", "raise"}
    /\ cli' = IF ing.pc = "raise" THEN CliHandle(cli, ing.err, "ingest")
              ELSE IF cli.idx = Len(cli.files)
              THEN [cli EXCEPT !.pc = "summary", !.returned = TRUE,
                               !.results = AppendResult(@, ing.rec)]
              ELSE [cli EXCEPT !.pc = "loop", !.idx = @ + 1,
                               !.results = AppendResult(@, ing.rec)]
    /\ ing' = IngIdle
    /\ UNCHANGED <<fsVars, lst, calls, ui, logger>>

\* for file_info in ingested_files: logging.info("Ingested file ...")
CliSummary ==
    /\ cli.pc = "summary"
    /\ cli' = [cli EXCEPT
                 !.pc = "done", !.outcome = "returned",
                 !.summary = [i \in 1..Len(cli.results) |-> SummaryLine(cli.results[i])]]
    /\ UNCHANGED <<fsVars, lst, ing, calls, ui, logger>>

InitCli ==
    /\ inputKind \in {"absent", "file", "dir"}
    /\ fs \in (IF inputKind = "dir" THEN {EmptyDir, ScenarioDir, MixedDir}
               ELSE {EmptyDir})
    /\ mods = [n \in Names |-> 0]
    /\ lst = ListIdle
    /\ ing = IngIdle
    /\ calls = <<>>
    /\ writer = WriterIdle
    /\ cli = [CliIdle EXCEPT !.pc = "start"]
    /\ ui = UiIdle
    /\ logger = LoggerIdle

NextCli ==
    \/ CliStart \/ CliAfterList \/ CliIngestNext \/ CliIngestDone \/ CliSummary
    \/ ListExists \/ ListIsDir \/ ListIter \/ ListReturn
    \/ IngestExists \/ IngestIsFile \/ IngestRead \/ IngestStat
    \/ EnvDelete \/ EnvMkdir \/ WriterOpen \/ WriterWrite

SpecCli == InitCli /\ [][NextCli]_vars

----------------------------------------------------------------------------
(* ui/app.py: the upload loop of main                                      *)

\* an except clause that takes missing files only
UiCaughtNotFoundOnly == {"FileNotFoundError"}

\* except Exception as exc
UiCaught == {"Exception"}

UploadNames == {NameATxt, NameBPdf, NameUpperPdf}

Uploads == [name : UploadNames, data : UploadDatas]

Batches == UNION {[1..k -> Uploads] : k \in 0..MaxUploads}

\* ensure_input_dir(): INPUT_DIR.mkdir(parents=True, exist_ok=True)
EnsureInputDirError(k) == IF k \in {"file", "other"} THEN "FileExistsError" ELSE "none"

\* destination.write_bytes(...): open(destination, "wb") fails on a directory
WriteBytesError(e) == IF e.kind = "dir" THEN "IsADirectoryError" ELSE "none"

\* save_uploaded_file(uploaded_file): the error it raises, "none" when it saves
SaveError(k, f, n) ==
    IF EnsureInputDirError(k) # "none" THEN EnsureInputDirError(k)
    ELSE WriteBytesError(f[n])

\* detail.update({"status": "error", "error": str(exc)}); ingestion_details.append(detail)
ErrorRow(n, t) == [name |-> n, status |-> "error", result |-> NoRecord, error |-> t]

\* detail.update({"status": "success", "result": ingestion_result}); ...append(detail)
SuccessRow(n, rec) == [name |-> n, status |-> "success", result |-> rec, error |-> "none"]

\* the for loop moves on to the next upload, or ends after the last
UiAdvance(u, row) ==
    [u EXCEPT !.details = Append(@, row),
              !.idx = @ + 1,
              !.pc = IF u.idx = Len(u.uploads) THEN "done" ELSE "loop"]

\* an error raised inside the try block of the loop body
UiHandle(u, n, t) ==
    IF Catches(UiCaught, t) THEN UiAdvance(u, ErrorRow(n, t))
    ELSE [u EXCEPT !.pc = "aborted"]

\* if uploaded_files: ...
UiStart ==
    /\ ui.pc = "start"
    /\ ui' = IF ui.uploads = <<>> THEN [ui EXCEPT !.pc = "done"]
             ELSE [ui EXCEPT !.pc = "loop", !.idx = 1]
    /\ UNCHANGED <<fsVars, lst, ing, calls, cli, logger>>

\* saved_path = save_uploaded_file(uploaded_file), then
\* ingest_file_from_path(saved_path) is called
UiSave ==
    /\ ui.pc = "loop"
    /\ ing.pc = "idle"
    /\ LET up == ui.uploads[ui.idx]
           e == SaveError(inputKind, fs, up.name)
           tried == [ui EXCEPT !.attempts = Append(@, up.name)]
       IN  /\ inputKind' = IF inputKind = "absent" THEN "dir" ELSE inputKind
           /\ IF e = "none"
              THEN /\ fs' = Written(Truncated(fs, up.name), up.name, up.data)
                   /\ ing' = IngCall(up.name)
                   /\ ui' = [tried EXCEPT !.pc = "ingesting"]
              ELSE /\ fs' = fs
                   /\ ing' = ing
                   /\ ui' = UiHandle(tried, up.name, e)
    /\ UNCHANGED <<mods, writer, lst, calls, cli, logger>>

\* ingestion_result = ingest_file_from_path(saved_path) returns or raises
UiIngestDone ==
    /\ ui.pc = "ingesting"
    /\ ing.pc \in {"ret", "raise"}
    /\ ui' = IF ing.pc = "ret"
             THEN UiAdvance(ui, SuccessRow(ui.uploads[ui.idx].name, ing.rec))
             ELSE UiHandle(ui, ui.uploads[ui.idx].name, ing.err)
    /\ ing' = IngIdle
    /\ UNCHANGED <<fsVars, lst, calls, cli, logger>>

InitUi ==
    /\ inputKind \in {"absent", "file", "dir"}
    /\ fs \in (IF inputKind = "dir" THEN {EmptyDir, MixedDir} ELSE {EmptyDir})
    /\ mods = [n \in Names |-> 0]
    /\ lst = ListIdle
    /\ ing = IngIdle
    /\ calls = <<>>
    /\ writer = WriterIdle
    /\ cli = CliIdle
    /\ \E b \in Batches : ui = [UiIdle EXCEPT !.pc = "start", !.uploads = b]
    /\ logger = LoggerIdle

NextUi ==
    \/ UiStart \/ UiSave \/ UiIngestDone
    \/ IngestExists \/ IngestIsFile \/ IngestRead \/ IngestStat
    \/ EnvDelete \/ EnvMkdir \/ WriterOpen \/ WriterWrite

SpecUi == InitUi /\ [][NextUi]_vars

----------------------------------------------------------------------------
(* src/core/logging_utils.py: configure_run_logger                         *)

Apps == {"cli_ingestion", "streamlit_ui"}

\* datetime.now() read off the clock, whole seconds
NowSeconds(clock) == clock \div TicksPerSecond

\* now.strftime("%Y%m%d")
DateSegment(now) == << now \div SecondsPerDay >>

\* now.strftime("%Y%m%d_%H%M%S")
RunSegment(now) == << now \div SecondsPerDay, now % SecondsPerDay >>

\* _build_run_log_paths(app_name): logs/<date>/<app>_<run>/<app>_<run>.log
BuildRunLogPaths(app, clock) ==
    LET now == NowSeconds(clock)
        runDir == << "logs", DateSegment(now), <<app, RunSegment(now)>> >>
    IN  [run_dir |-> runDir,
         log_file |-> Append(runDir, <<app, RunSegment(now), ".log">>)]

\* a loop over the live handler list, which skips every second handler
EveryOtherHandler(h) ==
    [i \in 1..((Len(h) + 1) \div 2) |-> h[2 * i - 1]]

\* for handler in list(root_logger.handlers): the handlers the loop visits
HandlersToReset(h) == h

\* root_logger.removeHandler(handler) for the visited handlers
Detach(h, visited) ==
    LET keep == {i \in 1..Len(h) : h[i] \notin SeqRange(visited)}
        RECURSIVE Pick(_)
        Pick(i) == IF i > Len(h) THEN <<>>
                   ELSE IF i \in keep THEN <<h[i]>> \o Pick(i + 1)
                   ELSE Pick(i + 1)
    IN  Pick(1)

\* handler.close() for the visited handlers
CloseAll(objs, visited) ==
    [i \in 1..Len(objs) |->
        IF i \in SeqRange(visited) THEN [objs[i] EXCEPT !.closed = TRUE]
        ELSE objs[i]]

FileHandler(path) == [kind |-> "file", path |-> path, closed |-> FALSE]
StreamHandler == [kind |-> "console", path |-> <<>>, closed |-> FALSE]
ForeignHandler == [kind |-> "foreign", path |-> <<>>, closed |-> FALSE]

\* configure_run_logger(app_name)
ConfigureRunLogger ==
    /\ Len(logger.history) < MaxConfigures
    /\ \E app \in Apps :
        LET paths == BuildRunLogPaths(app, logger.clock)
            visited == HandlersToReset(logger.handlers)
            kept == Detach(logger.handlers, visited)
            closed == CloseAll(logger.objs, visited)
            n == Len(closed)
        IN  logger' =
              [logger EXCEPT
                 !.dirs = @ \cup {paths.run_dir},
                 !.objs = closed \o <<FileHandler(paths.log_file), StreamHandler>>,
                 !.handlers = kept \o <<n + 1, n + 2>>,
                 !.history = Append(@, [app |-> app, tick |-> logger.clock,
                                        run_dir |-> paths.run_dir,
                                        log_file |-> paths.log_file,
                                        firstNew |-> n + 1]),
                 !.lastOp = "configure"]
    /\ UNCHANGED <<fsVars, lst, ing, calls, cli, ui>>

\* other code attaches a handler of its own to the root logger
AttachForeignHandler ==
    /\ Cardinality({i \in 1..Len(logger.objs) : logger.objs[i].kind = "foreign"})
         < MaxForeign
    /\ logger' = [logger EXCEPT
                    !.objs = Append(@, ForeignHandler),
                    !.handlers = Append(@, Len(logger.objs) + 1),
                    !.lastOp = "attach"]
    /\ UNCHANGED <<fsVars, lst, ing, calls, cli, ui>>

\* time passes
Tick ==
    /\ logger.clock < MaxClock
    /\ logger' = [logger EXCEPT !.clock = @ + 1]
    /\ UNCHANGED <<fsVars, lst, ing, calls, cli, ui>>

InitLog ==
    /\ inputKind = "dir"
    /\ fs = EmptyDir
    /\ mods = [n \in Names |-> 0]
    /\ lst = ListIdle
    /\ ing = IngIdle
    /\ calls = <<>>
    /\ writer = WriterIdle
    /\ cli = CliIdle
    /\ ui = UiIdle
    /\ logger = LoggerIdle

NextLog == ConfigureRunLogger \/ AttachForeignHandler \/ Tick

SpecLog == InitLog /\ [][NextLog]_vars

----------------------------------------------------------------------------
(* Claims about list_input_files (SpecList)                                *)

\* C1: list_input_files returns exactly the immediate entries that are
\* regular files with an allowed normalized extension, each once, in
\* ascending order of full path; subdirectories and non-regular entries are
\* never returned; nothing matching gives the empty list, not an error.
C1_ListExactSorted ==
    /\ lst.pc = "ret" =>
          /\ SeqRange(lst.ret) =
                {PathOf(n) : n \in {m \in Names :
                    /\ fs[m].kind = "file"
                    /\ FileExt(m) \in NormalizedExts(lst.allowed)}}
          /\ \A i, j \in 1..Len(lst.ret) :
                i < j => StrLT(PathStr(lst.ret[i]), PathStr(lst.ret[j]))
          /\ \A i \in 1..Len(lst.ret) :
                fs[NameOf(lst.ret[i])].kind \notin {"dir", "other", "absent"}
    /\ (inputKind = "dir" /\ lst.pc \in {"iter", "ret"}) => lst.err = "none"
    /\ inputKind = "dir" => lst.pc # "raise"

\* a listing of two files found in descending order, with a subdirectory and
\* a file of another type passed over
C1_Witness ==
    /\ lst.pc = "ret"
    /\ Len(lst.ret) >= 2
    /\ lst.matching # lst.ret
    /\ \E n \in Names : fs[n].kind = "dir" /\ FileExt(n) \in lst.normalized
    /\ \E n \in Names : fs[n].kind = "file" /\ FileExt(n) \notin lst.normalized

\* C9: list_input_files fails with FileNotFoundError (DirectoryNotFound) when
\* the path does not exist and with NotADirectoryError when it exists and is
\* not a directory; existence is checked first, and the error comes before
\* any entry is enumerated and with no partial list.
C9_ListPreconditions ==
    /\ lst.pc = "raise" =>
          /\ lst.err = "FileNotFoundError" <=> inputKind = "absent"
          /\ lst.err = "NotADirectoryError" <=> inputKind \in {"file", "other"}
          /\ lst.enumerated = {} /\ lst.matching = <<>> /\ lst.ret = <<>>
    /\ inputKind = "absent" => lst.pc \in {"exists", "raise"}
    /\ inputKind \in {"file", "other"} => lst.pc \in {"exists", "is_dir", "raise"}
    /\ lst.pc \in {"iter", "ret"} => lst.err = "none" /\ inputKind = "dir"

C9_Witness ==
    /\ lst.pc = "raise"
    /\ lst.err = "NotADirectoryError"
    /\ inputKind = "file"

C9_WitnessMissing ==
    /\ lst.pc = "raise"
    /\ lst.err = "FileNotFoundError"
    /\ inputKind = "absent"

----------------------------------------------------------------------------
(* Claims about ingest_file_from_path (SpecIngest)                         *)

OkCalls == {i \in 1..Len(calls) : calls[i].ok}

\* C4: every record returned for a regular file has size_bytes equal to
\* len(content_bytes), also when another writer changes the file between the
\* read of the content and the read of the size.
C4_SizeEqualsContentLength ==
    \A i \in OkCalls :
        calls[i].rec.size_bytes = Len(calls[i].rec.content_bytes)

C8_State ==
    /\ (ing.pc = "raise" /\ ing.at = "exists") =>
          ing.err = "FileNotFoundError" /\ ~ing.read /\ ing.rec = NoRecord
    /\ (ing.pc = "raise" /\ ing.at = "is_file") =>
          ing.err = "IsADirectoryError" /\ ~ing.read /\ ing.rec = NoRecord
    /\ ing.pc = "raise" => ing.rec = NoRecord
    /\ ing.pc = "ret" => ing.err = "none" /\ ing.rec # NoRecord

C8_Step ==
    (ing.pc \in {"exists", "is_file", "read", "stat"} /\ ing' # ing) =>
        /\ fs' = fs /\ inputKind' = inputKind
        /\ ing.pc = "exists" =>
              IF fs[ing.path].kind = "absent"
              THEN ing'.pc = "raise" /\ ing'.err = "FileNotFoundError"
                   /\ ~ing'.read
              ELSE ing'.pc = "is_file"
        /\ ing.pc = "is_file" =>
              IF fs[ing.path].kind # "file"
              THEN ing'.pc = "raise" /\ ing'.err = "IsADirectoryError"
                   /\ ~ing'.read
              ELSE ing'.pc = "read"

\* C8: ingest_file_from_path fails with FileNotFoundError when the path does
\* not exist and with IsADirectoryError (NotAFile) when it exists and is not a
\* regular file; the existence check comes first; a failed check raises
\* before any content is read and with no record; no step of the call,
\* failing or succeeding, changes the filesystem.
C8_IngestPreconditions == []C8_State /\ [][C8_Step]_vars

\* one call failed its existence check, another its regular-file check on a
\* special file, and nothing was read
C8_Witness ==
    /\ \E i \in 1..Len(calls) :
          calls[i].at = "exists" /\ calls[i].err = "FileNotFoundError"
    /\ \E i \in 1..Len(calls) :
          /\ calls[i].at = "is_file" /\ calls[i].err = "IsADirectoryError"
          /\ fs[calls[i].path].kind = "other"

\* C10 as stated: ... and any two ingestion calls of one run yield different
\* file_id values.
C10_FileIdsAlwaysDiffer ==
    \A i, j \in OkCalls : i # j => calls[i].rec.file_id # calls[j].rec.file_id

WellFormedFileId(id) ==
    /\ Len(id) = 10
    /\ id[1] = "F" /\ id[2] = "-"
    /\ \A k \in 3..10 : IsIn(HexChars, id[k])

\* C10, amended: two ingestions of an unmodified regular file return equal
\* name, extension, size_bytes and content_bytes, and every file_id is "F-"
\* followed by 8 lowercase hexadecimal characters.
C10_ReingestSameFields ==
    /\ \A i \in OkCalls : WellFormedFileId(calls[i].rec.file_id)
    /\ \A i, j \in OkCalls :
          (i < j /\ calls[i].path = calls[j].path /\ calls[i].m0 = calls[j].m1) =>
              /\ calls[i].rec.name = calls[j].rec.name
              /\ calls[i].rec.extension = calls[j].rec.extension
              /\ calls[i].rec.size_bytes = calls[j].rec.size_bytes
              /\ calls[i].rec.content_bytes = calls[j].rec.content_bytes

\* the same unmodified file ingested twice, with two identifiers
C10_Witness ==
    \E i, j \in OkCalls :
        /\ i < j /\ calls[i].path = calls[j].path /\ calls[i].m0 = calls[j].m1
        /\ calls[i].rec.file_id # calls[j].rec.file_id
        /\ calls[i].rec.content_bytes = DataHello

----------------------------------------------------------------------------
(* Claims about run_ingestion and main of main.py (SpecCli)                *)

NamesOf(paths) == [i \in 1..Len(paths) |-> NameOf(paths[i])]

\* C5 as stated: ... every error ingest_file_from_path raises for a file of
\* the batch is not caught by main and propagates out of it.
C5_PerFileErrorsPropagate ==
    (cli.pc = "done" /\ cli.raised.origin = "ingest") => cli.outcome = "propagated"

\* C5, amended: main catches FileNotFoundError and NotADirectoryError wherever
\* run_ingestion raises them: the directory-level errors of list_input_files
\* and also the FileNotFoundError ingest_file_from_path raises for a listed
\* file that is gone at ingestion time; each is logged, no summary line is
\* emitted and main returns normally. Only the per-file IsADirectoryError
\* (the path is not a regular file at ingestion time) propagates out of main.
C5_MainCatchesByType ==
    cli.pc = "done" =>
        /\ cli.raised.origin = "list" =>
              /\ cli.raised.type \in {"FileNotFoundError", "NotADirectoryError"}
              /\ cli.outcome = "returned"
              /\ cli.errorLog = <<cli.raised.type>>
              /\ cli.summary = <<>>
        /\ (cli.raised.origin = "ingest" /\ cli.raised.type = "FileNotFoundError") =>
              /\ cli.outcome = "returned"
              /\ cli.errorLog = <<cli.raised.type>>
              /\ cli.summary = <<>>
        /\ (cli.raised.origin = "ingest" /\ cli.raised.type # "FileNotFoundError") =>
              /\ cli.raised.type = "IsADirectoryError"
              /\ cli.outcome = "propagated"
              /\ cli.errorLog = <<>>
              /\ cli.summary = <<>>
        /\ cli.raised = NoError =>
              /\ cli.outcome = "returned"
              /\ cli.errorLog = <<>>
              /\ Len(cli.summary) = Len(cli.results)

\* a listed file was replaced by a directory before its turn, and the error
\* left main
C5_Witness ==
    /\ cli.pc = "done"
    /\ cli.raised = [type |-> "IsADirectoryError", origin |-> "ingest"]
    /\ cli.outcome = "propagated"

\* a listed file was deleted before its turn, and main caught the error
C5_WitnessCaught ==
    /\ cli.pc = "done"
    /\ cli.raised = [type |-> "FileNotFoundError", origin |-> "ingest"]
    /\ cli.outcome = "returned"

\* C6: run_ingestion lists once, then ingests the listed files one at a time
\* in the listed order; without a failure it returns one record per listed
\* file, the i-th for the i-th path (none for an empty listing); when the
\* i-th ingestion fails the error propagates, no later file is ingested and
\* no records are returned. For {a.txt, b.pdf, ignore.exe} the result is the
\* records of a.txt and b.pdf, in that order.
C6_RunIngestionSequential ==
    /\ cli.pc # "start" => cli.listCalls = 1
    /\ cli.attempted = SubSeq(NamesOf(cli.files), 1, Len(cli.attempted))
    /\ cli.pc = "loop" => Len(cli.attempted) = cli.idx - 1
    /\ cli.pc = "ingesting" => Len(cli.attempted) = cli.idx
    /\ \A i \in 1..Len(cli.results) :
          /\ cli.results[i].name = NameOf(cli.files[i])
          /\ cli.results[i].path = PathStr(cli.files[i])
    /\ cli.returned =>
          /\ cli.raised = NoError
          /\ Len(cli.results) = Len(cli.files)
          /\ cli.attempted = NamesOf(cli.files)
    /\ (cli.pc = "done" /\ cli.raised.origin = "ingest") =>
          /\ ~cli.returned
          /\ cli.summary = <<>>
          /\ Len(cli.attempted) = cli.idx
          /\ Len(cli.results) = cli.idx - 1
    /\ (cli.pc = "done" /\ cli.raised.origin = "list") =>
          ~cli.returned /\ cli.attempted = <<>> /\ cli.results = <<>>
    /\ (cli.pc = "done" /\ fs = ScenarioDir /\ TotalMods = 0) =>
          /\ cli.returned
          /\ [i \in 1..Len(cli.results) |->
                <<cli.results[i].name, cli.results[i].size_bytes>>]
               = << <<NameATxt, 5>>, <<NameBPdf, 10>> >>

\* the end-to-end run: a.txt then b.pdf, ignore.exe left out
C6_Witness ==
    /\ cli.pc = "done"
    /\ fs = ScenarioDir /\ TotalMods = 0
    /\ Len(cli.results) = 2
    /\ cli.results[1].name = NameATxt /\ cli.results[2].name = NameBPdf

\* a batch cut short: the first of two listed files failed, the second was
\* never tried
C6_WitnessAbort ==
    /\ cli.pc = "done"
    /\ cli.raised.origin = "ingest"
    /\ Len(cli.files) = 2 /\ cli.idx = 1
    /\ cli.attempted = <<NameATxt>>

\* an empty directory: an empty result, no error
C6_WitnessEmpty ==
    /\ cli.pc = "done" /\ cli.returned
    /\ fs = EmptyDir /\ cli.results = <<>> /\ cli.raised = NoError

----------------------------------------------------------------------------
(* Claims about the upload loop of ui/app.py (SpecUi)                      *)

\* how many uploads the loop has taken up so far
UiTaken ==
    CASE ui.pc = "start" -> 0
      [] ui.pc = "loop" -> ui.idx - 1
      [] ui.pc = "ingesting" -> ui.idx
      [] OTHER -> Len(ui.uploads)

C7_State ==
    /\ ui.pc # "aborted"
    /\ ui.attempts = [i \in 1..UiTaken |-> ui.uploads[i].name]
    /\ Len(ui.details) = IF ui.pc = "ingesting" THEN UiTaken - 1 ELSE UiTaken
    /\ \A i \in 1..Len(ui.details) :
          /\ ui.details[i].name = ui.uploads[i].name
          /\ \/ /\ ui.details[i].status = "success"
                /\ ui.details[i].result # NoRecord
                /\ ui.details[i].result.name = ui.uploads[i].name
                /\ ui.details[i].error = "none"
             \/ /\ ui.details[i].status = "error"
                /\ ui.details[i].result = NoRecord
                /\ ui.details[i].error # "none"

C7_Step ==
    /\ Len(ui'.details) \in {Len(ui.details), Len(ui.details) + 1}
    /\ SubSeq(ui'.details, 1, Len(ui.details)) = ui.details

\* C7: in the upload loop every upload is processed exactly once, in upload
\* order, and yields exactly one summary row (success with its record, or
\* error with the error text); a failure on one upload never keeps a later
\* upload from being saved and ingested, and never changes an earlier row.
C7_UploadIsolation == []C7_State /\ [][C7_Step]_vars

\* the first upload failed to save, the second was saved and ingested
C7_Witness ==
    /\ ui.pc = "done"
    /\ Len(ui.details) = 2
    /\ ui.details[1].status = "error"
    /\ ui.details[2].status = "success"

\* the first upload was saved and then failed in ingestion, the second
\* went through
C7_WitnessIngestFailure ==
    /\ ui.pc = "done"
    /\ Len(ui.details) = 2
    /\ ui.details[1].error = "FileNotFoundError"
    /\ ui.details[2].status = "success"

----------------------------------------------------------------------------
(* Claims about configure_run_logger (SpecLog)                             *)

LastCall == logger.history[Len(logger.history)]

Attached(i) == \E k \in 1..Len(logger.handlers) : logger.handlers[k] = i

\* C2: after one or more configure_run_logger calls, whatever was attached
\* before, the root logger has exactly two handlers: a file handler on the
\* path the latest call returned and a console handler; every handler
\* attached before the latest call is detached and closed.
C2_TwoHandlersAfterConfigure ==
    logger.lastOp = "configure" =>
        /\ Len(logger.handlers) = 2
        /\ logger.objs[logger.handlers[1]] = FileHandler(LastCall.log_file)
        /\ logger.objs[logger.handlers[2]] = StreamHandler
        /\ LastCall.run_dir \in logger.dirs
        /\ \A i \in 1..Len(logger.objs) :
              i < LastCall.firstNew => logger.objs[i].closed /\ ~Attached(i)

\* a third call in a row, made after other code had attached its own handler
C2_Witness ==
    /\ logger.lastOp = "configure"
    /\ Len(logger.history) = 3
    /\ \E i \in 1..Len(logger.objs) :
          logger.objs[i].kind = "foreign" /\ logger.objs[i].closed
    /\ Len(logger.objs) = 7

\* C3: any two configure_run_logger calls of one process with the same
\* app_name return distinct log file paths and use distinct run directories,
\* also when both fall in the same second.
C3_LogPathsDistinct ==
    \A i, j \in 1..Len(logger.history) :
        (i < j /\ logger.history[i].app = logger.history[j].app) =>
            /\ logger.history[i].log_file # logger.history[j].log_file
            /\ logger.history[i].run_dir # logger.history[j].run_dir

====
